---- MODULE Spec2Model ----
(***************************************************************************)
(* PeriodicHill/runScript.py: the DAFoam field-inversion run script.       *)
(* Every rank of the MPI process group executes the script top to bottom   *)
(* with the same command line.  The external framework calls (run_model,   *)
(* compute_totals, check_totals, run_driver) are blocking calls: each is   *)
(* one step of the calling rank and is recorded, with its keyword          *)
(* arguments, in that rank's call log.                                     *)
(***************************************************************************)
EXTENDS Integers, Sequences, FiniteSets, TLC

\* ----- bounds of the model ------------------------------------------------
MaxRanks == 2
MaxVal == 1

\* ----- program constants --------------------------------------------------
nCells == 3500
betaLower == -5
betaUpper == 10
betaInit == 1

\* ----- python values ------------------------------------------------------
\* a float literal m * 10^e, an int, a string, a bool and None, all of one shape
FloatV(m, e) == [kind |-> "float", s |-> "", m |-> m, e |-> e]
IntV(n) == [kind |-> "int", s |-> "", m |-> n, e |-> 0]
StrV(x) == [kind |-> "str", s |-> x, m |-> 0, e |-> 0]
BoolV(b) == [kind |-> "bool", s |-> IF b THEN "True" ELSE "False", m |-> 0, e |-> 0]
NoneVal == [kind |-> "None", s |-> "", m |-> 0, e |-> 0]

\* a dict is a set of key/value entries with distinct keys
Entry(k, v) == [k |-> k, v |-> v]
Has(d, k) == \E x \in d : x.k = k
Get(d, k) == (CHOOSE x \in d : x.k = k).v
Put(d, k, v) == {x \in d : x.k # k} \cup {Entry(k, v)}

\* ----- command line -------------------------------------------------------
\* A word of the command line is a Python str.  It is written here the way a
\* Python literal writes it: a backslash as two backslashes, a character that
\* is not printable ASCII, tab, newline, form feed or carriage return as
\* \uXXXX (\UXXXXXXXX above U+FFFF) with the lower-case hexadecimal digits of
\* its code point, and every other character as itself.  Two words are equal
\* exactly when their writings are.
StartsWith(s, p) == Len(p) <= Len(s) /\ SubSeq(s, 1, Len(p)) = p
HasChar(s, c) == \E i \in 1 .. Len(s) : SubSeq(s, i, i) = c
FirstIndex(s, c) == CHOOSE i \in 1 .. Len(s) :
                        /\ SubSeq(s, i, i) = c
                        /\ \A j \in 1 .. (i - 1) : SubSeq(s, j, j) # c
Before(s, c) == SubSeq(s, 1, FirstIndex(s, c) - 1)
After(s, c) == SubSeq(s, FirstIndex(s, c) + 1, Len(s))

HexDigits == "0123456789abcdef"
AllHex(s) == \A i \in 1 .. Len(s) : HasChar(HexDigits, SubSeq(s, i, i))
RECURSIVE HexNum(_)
HexNum(s) ==
    IF s = "" THEN 0
    ELSE 16 * HexNum(SubSeq(s, 1, Len(s) - 1))
         + (FirstIndex(HexDigits, SubSeq(s, Len(s), Len(s))) - 1)

\* the length of the writing of the first character of a non-empty s
CharLen(s) ==
    IF SubSeq(s, 1, 1) # "\\" THEN 1
    ELSE IF Len(s) >= 2 /\ SubSeq(s, 2, 2) = "\\" THEN 2
    ELSE IF Len(s) >= 6 /\ SubSeq(s, 2, 2) = "u" /\ AllHex(SubSeq(s, 3, 6)) THEN 6
    ELSE IF Len(s) >= 10 /\ SubSeq(s, 2, 2) = "U" /\ AllHex(SubSeq(s, 3, 10)) THEN 10
    ELSE 1

\* the characters of a word, each in its writing
RECURSIVE Chars(_)
Chars(s) ==
    IF s = "" THEN <<>>
    ELSE <<SubSeq(s, 1, CharLen(s))>> \o Chars(SubSeq(s, CharLen(s) + 1, Len(s)))

\* the code point of a character written \uXXXX or \UXXXXXXXX
CodePoint(c) == HexNum(SubSeq(c, 3, Len(c)))

\* \d of a str pattern: the decimal digits of Unicode (category Nd, Unicode
\* 14.0 in Python 3.11).  They come in runs of ten, one per script; Digits are
\* the ASCII ones and DecimalZeros the code point of the zero of every run
Digits == {"0", "1", "2", "3", "4", "5", "6", "7", "8", "9"}
DecimalZeros ==
    {48, 1632, 1776, 1984, 2406, 2534, 2662, 2790, 2918, 3046, 3174, 3302, 3430,
     3558, 3664, 3792, 3872, 4160, 4240, 6112, 6160, 6470, 6608, 6784, 6800, 6992,
     7088, 7232, 7248, 42528, 43216, 43264, 43472, 43504, 43600, 44016, 65296,
     66720, 68912, 69734, 69872, 69942, 70096, 70384, 70736, 70864, 71248, 71360,
     71472, 71904, 72016, 72784, 73040, 73120, 92768, 92864, 93008, 120782,
     120792, 120802, 120812, 120822, 123200, 123632, 125264, 130032}
IsDigit(c) ==
    IF Len(c) = 1 THEN c \in Digits
    ELSE /\ Len(c) \in {6, 10}
         /\ \E z \in DecimalZeros : z <= CodePoint(c) /\ CodePoint(c) <= z + 9
AllDigits(s) == \A i \in 1 .. Len(Chars(s)) : IsDigit(Chars(s)[i])

\* "$" of a pattern used with re.match: the end of the string, or the place
\* before a newline that ends the string; the part of s the pattern must cover
BeforeDollar(s) ==
    IF Len(s) >= 1 /\ SubSeq(s, Len(s), Len(s)) = "\n"
    THEN SubSeq(s, 1, Len(s) - 1)
    ELSE s

\* argparse's negative-number pattern  ^-\d+$|^-\d*\.\d+$
IsNegativeNumber(s) ==
    /\ Len(s) >= 2
    /\ SubSeq(s, 1, 1) = "-"
    /\ LET t == BeforeDollar(SubSeq(s, 2, Len(s)))
       IN \/ Len(t) >= 1 /\ AllDigits(t)
          \/ /\ HasChar(t, ".")
             /\ AllDigits(Before(t, "."))
             /\ Len(After(t, ".")) >= 1
             /\ AllDigits(After(t, "."))

\* the option strings of the parser: -h/--help is added by ArgumentParser()
OptionStrings == {"-h", "--help", "-optimizer", "-task"}
DestOf(o) == IF o \in {"-h", "--help"} THEN "help"
             ELSE IF o = "-optimizer" THEN "optimizer" ELSE "task"

ArgDefaults == [optimizer |-> "IPOPT", task |-> "run_driver"]

\* abbreviations of an option string (len(w) >= 2, w starts with "-")
get_option_tuples(w) ==
    IF SubSeq(w, 2, 2) = "-"
    THEN LET pre == IF HasChar(w, "=") THEN Before(w, "=") ELSE w
             ex == IF HasChar(w, "=") THEN <<After(w, "=")>> ELSE <<>>
         IN {[opt |-> o, explicit |-> ex] : o \in {x \in OptionStrings : StartsWith(x, pre)}}
    ELSE {[opt |-> o, explicit |-> <<SubSeq(w, 3, Len(w))>>] :
              o \in {x \in OptionStrings : x = SubSeq(w, 1, 2)}}
         \cup {[opt |-> o, explicit |-> <<>>] :
              o \in {x \in OptionStrings : x # SubSeq(w, 1, 2) /\ StartsWith(x, w)}}

\* one word of the command line: an argument "A", an option "O" (opt = "" when
\* it names no option of the parser) or an ambiguous abbreviation "E"
parse_optional(w) ==
    LET arg == [cls |-> "A", opt |-> "", explicit |-> <<>>]
    IN IF w = "" THEN arg
       ELSE IF SubSeq(w, 1, 1) # "-" THEN arg
       ELSE IF w \in OptionStrings THEN [cls |-> "O", opt |-> w, explicit |-> <<>>]
       ELSE IF Len(w) = 1 THEN arg
       ELSE IF HasChar(w, "=") /\ Before(w, "=") \in OptionStrings
            THEN [cls |-> "O", opt |-> Before(w, "="), explicit |-> <<After(w, "=")>>]
       ELSE LET tuples == get_option_tuples(w)
            IN IF Cardinality(tuples) > 1 THEN [cls |-> "E", opt |-> "", explicit |-> <<>>]
               ELSE IF Cardinality(tuples) = 1
                    THEN LET t == CHOOSE x \in tuples : TRUE
                         IN [cls |-> "O", opt |-> t.opt, explicit |-> t.explicit]
               ELSE IF IsNegativeNumber(w) THEN arg
               ELSE IF HasChar(w, " ") THEN arg
               ELSE [cls |-> "O", opt |-> "", explicit |-> <<>>]

\* the pattern of the command line: everything after the first "--" is an argument
Pattern(av) ==
    LET seps == {i \in 1 .. Len(av) : av[i] = "--"}
        sep == IF seps = {} THEN Len(av) + 1
               ELSE CHOOSE i \in seps : \A j \in seps : i <= j
    IN [i \in 1 .. Len(av) |->
          IF i < sep THEN parse_optional(av[i])
          ELSE IF i = sep THEN [cls |-> "-", opt |-> "", explicit |-> <<>>]
          ELSE [cls |-> "A", opt |-> "", explicit |-> <<>>]]

Parsed(ns) == [kind |-> "namespace", ns |-> ns, msg |-> ""]
HelpExit(ns) == [kind |-> "help", ns |-> ns, msg |-> "usage"]
ParseError(ns, msg) == [kind |-> "error", ns |-> ns, msg |-> msg]

\* a namespace value that is not a str: the empty list, written as no word is
EmptyList == "\\[]"

\* the value the store action gets for the one word handed to an option: a
\* word "--" is removed from the argument list first, and the list that is
\* left, having no single word, is stored as it is
get_values(w) == IF w = "--" THEN EmptyList ELSE w

SetDest(ns, dest, v) ==
    IF dest = "optimizer" THEN [ns EXCEPT !.optimizer = v] ELSE [ns EXCEPT !.task = v]

\* the consume loop of the parser from word i on; ex: some word was left over
RECURSIVE Consume(_, _, _, _, _)
RECURSIVE ConsumeOptional(_, _, _, _, _, _, _)
Consume(av, pat, i, ns, ex) ==
    LET optIdx == {k \in i .. Len(av) : pat[k].cls = "O"}
    IN IF optIdx = {}
       THEN IF ex \/ i <= Len(av)
            THEN ParseError(ns, "unrecognized arguments")
            ELSE Parsed(ns)
       ELSE LET k == CHOOSE x \in optIdx : \A y \in optIdx : x <= y
            IN ConsumeOptional(av, pat, k, pat[k].opt, pat[k].explicit, ns, ex \/ k > i)

ConsumeOptional(av, pat, k, opt, explicit, ns, ex) ==
    IF opt = "" THEN Consume(av, pat, k + 1, ns, TRUE)
    ELSE IF explicit # <<>>
    THEN IF DestOf(opt) = "help"
         THEN IF opt = "-h" /\ explicit[1] # ""
              THEN LET o2 == "-" \o SubSeq(explicit[1], 1, 1)
                       rest == SubSeq(explicit[1], 2, Len(explicit[1]))
                   IN IF o2 \in OptionStrings
                      THEN ConsumeOptional(av, pat, k, o2,
                                           IF rest = "" THEN <<>> ELSE <<rest>>, ns, ex)
                      ELSE ParseError(ns, "ignored explicit argument")
              ELSE ParseError(ns, "ignored explicit argument")
         ELSE Consume(av, pat, k + 1, SetDest(ns, DestOf(opt), get_values(explicit[1])), ex)
    ELSE IF DestOf(opt) = "help" THEN HelpExit(ns)
    ELSE IF k + 1 <= Len(av) /\ pat[k + 1].cls = "A"
         THEN Consume(av, pat, k + 2, SetDest(ns, DestOf(opt), get_values(av[k + 1])), ex)
         ELSE ParseError(ns, "expected one argument")

\* parser.parse_args(): a namespace, or the end of the process (help: status 0,
\* rejected command line: status 2)
parse_args(av) ==
    LET pat == Pattern(av)
    IN IF \E i \in 1 .. Len(av) : pat[i].cls = "E"
       THEN ParseError(ArgDefaults, "ambiguous option")
       ELSE Consume(av, pat, 1, ArgDefaults, FALSE)

\* the command lines of the model: the two flags in full with every token,
\* other spellings the parser accepts, the help flag, and rejected lines
OptimizerTokens == {"SNOPT", "IPOPT", "SLSQP", "snopt"}
TaskTokens == {"run_driver", "run_model", "compute_totals", "check_totals", "Run_Model"}

PlainArgv ==
    {<<>>}
    \cup {<<"-optimizer", o>> : o \in OptimizerTokens}
    \cup {<<"-task", t>> : t \in TaskTokens}
    \cup {<<"-optimizer", o, "-task", t>> : o \in OptimizerTokens, t \in TaskTokens}

VariantArgv ==
    {<<"-task", "compute_totals", "-optimizer", "SLSQP">>,
     <<"-optimizer", "CONMIN", "-task", "check_totals">>,
     <<"-o", "SNOPT">>,
     <<"-t", "check_totals", "-opt", "slsqp">>,
     <<"-optimizer=SNOPT", "-task=run_model">>,
     <<"-task", "run_model", "-task", "Run_Model">>,
     <<"-optimizer", "-5">>,
     <<"-optimizer", "-5\n">>,
     <<"-task", "-5.5\n">>,
     <<"-optimizer", "-\\u0663">>,
     <<"-task", "-\\u0663", "-optimizer", "SNOPT">>,
     <<"-optimizer=-x", "-task", "run_model">>,
     <<"-optimizer=--">>,
     <<"-task=--", "-optimizer", "SNOPT">>}

HelpArgv ==
    {<<"-h">>,
     <<"--help">>,
     <<"-task", "run_model", "-h">>,
     <<"-optimizer", "snopt", "-h">>,
     <<"-foo", "-h">>,
     <<"-optimizer", "-5\n", "-h">>,
     <<"-optimizer", "-\\u0663", "-h">>}

RejectedArgv ==
    {<<"-optimizer">>,
     <<"-optimizer", "-x">>,
     <<"-task", "-x">>,
     <<"-optimizer", "-x", "-task", "run_model">>,
     <<"-optimizer", "SNOPT", "-task">>,
     <<"-task", "run_model", "extra">>,
     <<"--optimizer", "SNOPT">>,
     <<"-optimizer", "-h", "SNOPT">>}

ArgvSet == PlainArgv \cup VariantArgv \cup HelpArgv \cup RejectedArgv

\* parse_args on the command line of the run (tabulated for the command lines
\* of the model, computed for any other)
ParseTable == [av \in ArgvSet |-> parse_args(av)]
ParseResult(av) == IF av \in ArgvSet THEN ParseTable[av] ELSE parse_args(av)

\* ----- the problem graph (class Top) --------------------------------------
ExecComp(error, regulation) == error + regulation

TopSetup ==
    [subsystems |-> <<"dvs", "scenario1", "obj">>,
     promotes |-> {"dvs"},
     expr |-> "val=error+regulation",
     outputs |-> {},
     connections |-> {},
     design_vars |-> {},
     objectives |-> {}]

\* variant: the two objective terms are wired to each other's source
TopConfigureSwapped(m) ==
    [m EXCEPT
       !.outputs = Put(m.outputs, "beta", [val |-> betaInit, len |-> nCells, distributed |-> FALSE]),
       !.connections = {[src |-> "beta", tgt |-> "scenario1.beta"],
                        [src |-> "scenario1.aero_post.betaVar", tgt |-> "obj.error"],
                        [src |-> "scenario1.aero_post.UFieldVar", tgt |-> "obj.regulation"]},
       !.design_vars = {[name |-> "beta", lower |-> betaLower, upper |-> betaUpper, scaler |-> 1]},
       !.objectives = {[name |-> "obj.val", scaler |-> 1]}]

TopConfigure(m) ==
    [m EXCEPT
       !.outputs = Put(m.outputs, "beta", [val |-> betaInit, len |-> nCells, distributed |-> FALSE]),
       !.connections = {[src |-> "beta", tgt |-> "scenario1.beta"],
                        [src |-> "scenario1.aero_post.UFieldVar", tgt |-> "obj.error"],
                        [src |-> "scenario1.aero_post.betaVar", tgt |-> "obj.regulation"]},
       !.design_vars = {[name |-> "beta", lower |-> betaLower, upper |-> betaUpper, scaler |-> 1]},
       !.objectives = {[name |-> "obj.val", scaler |-> 1]}]

\* ----- optimizer settings tables ------------------------------------------
SNOPTSettings ==
    {Entry("Major feasibility tolerance", FloatV(1, -6)),
     Entry("Major optimality tolerance", FloatV(1, -6)),
     Entry("Minor feasibility tolerance", FloatV(1, -6)),
     Entry("Verify level", IntV(-1)),
     Entry("Function precision", FloatV(1, -6)),
     Entry("Major iterations limit", IntV(50)),
     Entry("Linesearch tolerance", FloatV(999, -3)),
     Entry("Hessian updates", IntV(50)),
     Entry("Nonderivative linesearch", NoneVal),
     Entry("Print file", StrV("opt_SNOPT_print.txt")),
     Entry("Summary file", StrV("opt_SNOPT_summary.txt"))}

IPOPTSettings ==
    {Entry("tol", FloatV(1, -5)),
     Entry("constr_viol_tol", FloatV(1, -5)),
     Entry("max_iter", IntV(50)),
     Entry("print_level", IntV(5)),
     Entry("output_file", StrV("opt_IPOPT.txt")),
     Entry("mu_strategy", StrV("adaptive")),
     Entry("limited_memory_max_history", IntV(10)),
     Entry("nlp_scaling_method", StrV("none")),
     Entry("alpha_for_y", StrV("full")),
     Entry("recalc_y", StrV("yes"))}

SLSQPSettings ==
    {Entry("ACC", FloatV(1, -5)),
     Entry("MAXIT", IntV(100)),
     Entry("IFILE", StrV("opt_SLSQP.txt"))}


\* variant: the comparison ignores case
OptimizerBranchNoCase(optimizer) ==
    IF optimizer \in {"SNOPT", "snopt"} THEN "SNOPT"
    ELSE IF optimizer \in {"IPOPT", "ipopt"} THEN "IPOPT"
    ELSE IF optimizer \in {"SLSQP", "slsqp"} THEN "SLSQP"
    ELSE "else"

\* variant: the chain ends in the SLSQP table instead of the error branch
OptimizerBranchNoElse(optimizer) ==
    IF optimizer = "SNOPT" THEN "SNOPT"
    ELSE IF optimizer = "IPOPT" THEN "IPOPT"
    ELSE "SLSQP"

\* the if/elif chain of the optimizer selection
OptimizerBranch(optimizer) ==
    IF optimizer = "SNOPT" THEN "SNOPT"
    ELSE IF optimizer = "IPOPT" THEN "IPOPT"
    ELSE IF optimizer = "SLSQP" THEN "SLSQP"
    ELSE "else"

\* variant: the SNOPT and IPOPT tables sit in each other's branch
OptSettingsOfSwapped(branch) ==
    IF branch = "SNOPT" THEN IPOPTSettings
    ELSE IF branch = "IPOPT" THEN SNOPTSettings
    ELSE SLSQPSettings

OptSettingsOf(branch) ==
    IF branch = "SNOPT" THEN SNOPTSettings
    ELSE IF branch = "IPOPT" THEN IPOPTSettings
    ELSE SLSQPSettings

\* variant: the chain ends in the optimization branch instead of the error branch
TaskBranchNoElse(task) ==
    IF task = "run_model" THEN "run_model"
    ELSE IF task = "compute_totals" THEN "compute_totals"
    ELSE IF task = "check_totals" THEN "check_totals"
    ELSE "run_driver"

\* variant: the bodies of the run_model and compute_totals branches are exchanged
TaskBranchSwapped(task) ==
    IF task = "run_driver" THEN "run_driver"
    ELSE IF task = "run_model" THEN "compute_totals"
    ELSE IF task = "compute_totals" THEN "run_model"
    ELSE IF task = "check_totals" THEN "check_totals"
    ELSE "else"

\* the if/elif chain of the task dispatch
TaskBranch(task) ==
    IF task = "run_driver" THEN "run_driver"
    ELSE IF task = "run_model" THEN "run_model"
    ELSE IF task = "compute_totals" THEN "compute_totals"
    ELSE IF task = "check_totals" THEN "check_totals"
    ELSE "else"

\* keyword arguments of the derivative check
CheckTotalsKw ==
    {Entry("compact_print", BoolV(FALSE)),
     Entry("step", FloatV(1, -3)),
     Entry("form", StrV("central")),
     Entry("step_calc", StrV("abs"))}

\* variant: no rank gate
IsPrintingRankAny(rank) == rank >= 0

\* the rank gate of the print of the totals
IsPrintingRank(rank) == rank = 0

\* ----- state ---------------------------------------------------------------
VARIABLES
    argv,        \* the command line after the script name, the same on every rank
    nprocs,      \* size of MPI.COMM_WORLD
    ext,         \* what the external solver returns in this run (once a rank
                 \* has returned from a solve), and the design point the
                 \* optimizer ended on (<<>> until a rank has returned from it)
    pc,          \* pc[r]: position of rank r in the script
    args,        \* args[r]: <<>> until parse_args returns, then <<namespace>>
    model,       \* model[r]: prob.model, the Top group
    vals,        \* vals[r]: values of the graph's variables
    driver,      \* driver[r]: prob.driver
    calls,       \* calls[r]: the framework run calls made so far, in order
    stdout,      \* stdout[r]: lines printed by the script
    stderr,      \* stderr[r]: diagnostics of the argument parser
    files,       \* files[r]: files the script's own statements name as output
    exitStatus   \* exitStatus[r]: <<>> while running, <<code>> once exited

vars == <<argv, nprocs, ext, pc, args, model, vals, driver, calls, stdout, stderr, files, exitStatus>>

Ranks == 0 .. (nprocs - 1)

\* before any framework run call has returned
ExtSet == {[solved |-> FALSE, UFieldVar |-> 0, betaVar |-> 0, betaOpt |-> <<>>]}

\* the forward solve is one computation of the whole group: the first rank
\* that returns from it fixes the two function values, a rank that returns
\* later holds the same ones
SolveReturns(e) ==
    IF e.solved THEN {e}
    ELSE {[e EXCEPT !.solved = TRUE, !.UFieldVar = u, !.betaVar = b] :
              u \in 0 .. MaxVal, b \in 0 .. MaxVal}

\* the optimizer ends anywhere inside the bounds of the design variable, and
\* at the same point on every rank.  The model takes three points of that
\* interval: its two ends and the starting value of the design variable
BetaOptValues == {b \in {betaLower, betaInit, betaUpper} : betaLower <= b /\ b <= betaUpper}
DriverReturns(e) ==
    IF e.betaOpt # <<>> THEN {e}
    ELSE {[e1 EXCEPT !.betaOpt = <<b>>] : e1 \in SolveReturns(e), b \in BetaOptValues}

NoDriver == [kind |-> "Driver", optimizer |-> "", opt_settings |-> {},
             debug_print |-> <<>>, print_opt_prob |-> FALSE, hist_file |-> ""]

NoModel == [subsystems |-> <<>>, promotes |-> {}, expr |-> "", outputs |-> {},
            connections |-> {}, design_vars |-> {}, objectives |-> {}]

Init ==
    /\ argv \in ArgvSet
    /\ nprocs \in 1 .. MaxRanks
    /\ ext \in ExtSet
    /\ pc = [r \in Ranks |-> "parse"]
    /\ args = [r \in Ranks |-> <<>>]
    /\ model = [r \in Ranks |-> NoModel]
    /\ vals = [r \in Ranks |-> {}]
    /\ driver = [r \in Ranks |-> NoDriver]
    /\ calls = [r \in Ranks |-> <<>>]
    /\ stdout = [r \in Ranks |-> <<>>]
    /\ stderr = [r \in Ranks |-> <<>>]
    /\ files = [r \in Ranks |-> {}]
    /\ exitStatus = [r \in Ranks |-> <<>>]


\* ----- the framework calls, as far as the script can observe them ---------
\* data passing along the declared connections into the inputs named in T
TransferTo(v, conns, T) ==
    LET live == {c \in conns : c.tgt \in T /\ Has(v, c.src)}
    IN {x \in v : ~(\E c \in live : c.tgt = x.k)}
       \cup {Entry(c.tgt, Get(v, c.src)) : c \in live}

\* the scenario's two function outputs are whatever the external solver returns
ScenarioSolve(v, e) ==
    Put(Put(v, "scenario1.aero_post.UFieldVar", e.UFieldVar),
        "scenario1.aero_post.betaVar", e.betaVar)

\* the obj component evaluates its expression on its two inputs
ObjCompute(v) ==
    IF Has(v, "obj.error") /\ Has(v, "obj.regulation")
    THEN Put(v, "obj.val", ExecComp(Get(v, "obj.error"), Get(v, "obj.regulation")))
    ELSE v

\* prob.run_model(): one forward pass through dvs, scenario1, obj
run_model(m, v, e) ==
    LET v1 == TransferTo(v, m.connections, {"scenario1.beta"})
        v2 == ScenarioSolve(v1, e)
        v3 == TransferTo(v2, m.connections, {"obj.error", "obj.regulation"})
    IN ObjCompute(v3)

\* prob.run_driver(): the optimizer moves the design variable inside its
\* bounds and leaves the model evaluated at the final point
run_driver(m, v, e) == run_model(m, Put(v, "beta", e.betaOpt[1]), e)

Call(op, kw) == [op |-> op, kw |-> kw]

Running(r) == r \in Ranks /\ exitStatus[r] = <<>>

\* ----- the script, statement by statement ---------------------------------
\* lines 19-24, the parser returns a namespace
ParseArgs(r) ==
    /\ Running(r) /\ pc[r] = "parse"
    /\ ParseResult(argv).kind = "namespace"
    /\ args' = [args EXCEPT ![r] = <<ParseResult(argv).ns>>]
    /\ pc' = [pc EXCEPT ![r] = "setup"]
    /\ UNCHANGED <<argv, nprocs, ext, model, vals, driver, calls, stdout, stderr, files, exitStatus>>

\* line 24, a help flag: the parser prints the usage and exits with status 0
ParseHelp(r) ==
    /\ Running(r) /\ pc[r] = "parse"
    /\ ParseResult(argv).kind = "help"
    /\ stdout' = [stdout EXCEPT ![r] = Append(@, ParseResult(argv).msg)]
    /\ exitStatus' = [exitStatus EXCEPT ![r] = <<0>>]
    /\ pc' = [pc EXCEPT ![r] = "exited"]
    /\ UNCHANGED <<argv, nprocs, ext, args, model, vals, driver, calls, stderr, files>>

\* line 24, a rejected command line: the parser reports it and exits with status 2
ParseReject(r) ==
    /\ Running(r) /\ pc[r] = "parse"
    /\ ParseResult(argv).kind = "error"
    /\ stderr' = [stderr EXCEPT ![r] = Append(@, ParseResult(argv).msg)]
    /\ exitStatus' = [exitStatus EXCEPT ![r] = <<2>>]
    /\ pc' = [pc EXCEPT ![r] = "exited"]
    /\ UNCHANGED <<argv, nprocs, ext, args, model, vals, driver, calls, stdout, files>>

\* lines 122-125
ProblemSetup(r) ==
    /\ Running(r) /\ pc[r] = "setup"
    /\ model' = [model EXCEPT ![r] = TopConfigure(TopSetup)]
    /\ vals' = [vals EXCEPT ![r] = {Entry("beta", betaInit)}]
    /\ files' = [files EXCEPT ![r] = @ \cup {"mphys.html"}]
    /\ pc' = [pc EXCEPT ![r] = "driver"]
    /\ UNCHANGED <<argv, nprocs, ext, args, driver, calls, stdout, stderr, exitStatus>>

\* lines 128-163 and 168-170: the driver, its settings table and its options
ConfigureDriver(r) ==
    /\ Running(r) /\ pc[r] = "driver"
    /\ OptimizerBranch(args[r][1].optimizer) # "else"
    /\ driver' = [driver EXCEPT ![r] =
                    [NoDriver EXCEPT
                       !.kind = "pyOptSparseDriver",
                       !.optimizer = args[r][1].optimizer,
                       !.opt_settings = OptSettingsOf(OptimizerBranch(args[r][1].optimizer)),
                       !.debug_print = <<"nl_cons", "objs", "desvars">>,
                       !.print_opt_prob = TRUE,
                       !.hist_file = "OptView.hst"]]
    /\ pc' = [pc EXCEPT ![r] = "dispatch"]
    /\ UNCHANGED <<argv, nprocs, ext, args, model, vals, calls, stdout, stderr, files, exitStatus>>

\* lines 128-129 and 164-166: the driver, then the else branch of the selection
OptimizerError(r) ==
    /\ Running(r) /\ pc[r] = "driver"
    /\ OptimizerBranch(args[r][1].optimizer) = "else"
    /\ driver' = [driver EXCEPT ![r] =
                    [NoDriver EXCEPT !.kind = "pyOptSparseDriver",
                                     !.optimizer = args[r][1].optimizer]]
    /\ stdout' = [stdout EXCEPT ![r] = Append(@, "optimizer arg not valid!")]
    /\ exitStatus' = [exitStatus EXCEPT ![r] = <<1>>]
    /\ pc' = [pc EXCEPT ![r] = "exited"]
    /\ UNCHANGED <<argv, nprocs, ext, args, model, vals, calls, stderr, files>>

\* lines 172-174
TaskRunDriver(r) ==
    /\ Running(r) /\ pc[r] = "dispatch"
    /\ TaskBranch(args[r][1].task) = "run_driver"
    /\ ext' \in DriverReturns(ext)
    /\ calls' = [calls EXCEPT ![r] = Append(@, Call("run_driver", {}))]
    /\ vals' = [vals EXCEPT ![r] = run_driver(model[r], @, ext')]
    /\ pc' = [pc EXCEPT ![r] = "end"]
    /\ UNCHANGED <<argv, nprocs, args, model, driver, stdout, stderr, files, exitStatus>>

\* lines 175-177
TaskRunModel(r) ==
    /\ Running(r) /\ pc[r] = "dispatch"
    /\ TaskBranch(args[r][1].task) = "run_model"
    /\ ext' \in SolveReturns(ext)
    /\ calls' = [calls EXCEPT ![r] = Append(@, Call("run_model", {}))]
    /\ vals' = [vals EXCEPT ![r] = run_model(model[r], @, ext')]
    /\ pc' = [pc EXCEPT ![r] = "end"]
    /\ UNCHANGED <<argv, nprocs, args, model, driver, stdout, stderr, files, exitStatus>>

\* lines 178-180
ComputeTotalsRunModel(r) ==
    /\ Running(r) /\ pc[r] = "dispatch"
    /\ TaskBranch(args[r][1].task) = "compute_totals"
    /\ ext' \in SolveReturns(ext)
    /\ calls' = [calls EXCEPT ![r] = Append(@, Call("run_model", {}))]
    /\ vals' = [vals EXCEPT ![r] = run_model(model[r], @, ext')]
    /\ pc' = [pc EXCEPT ![r] = "compute_totals"]
    /\ UNCHANGED <<argv, nprocs, args, model, driver, stdout, stderr, files, exitStatus>>

\* variant: the rank gate also covers the derivative computation
ComputeTotalsCallGated(r) ==
    /\ Running(r) /\ pc[r] = "compute_totals"
    /\ calls' = [calls EXCEPT ![r] = IF r = 0 THEN Append(@, Call("compute_totals", {})) ELSE @]
    /\ pc' = [pc EXCEPT ![r] = "print_totals"]
    /\ UNCHANGED <<argv, nprocs, ext, args, model, vals, driver, stdout, stderr, files, exitStatus>>

\* line 181
ComputeTotalsCall(r) ==
    /\ Running(r) /\ pc[r] = "compute_totals"
    /\ calls' = [calls EXCEPT ![r] = Append(@, Call("compute_totals", {}))]
    /\ pc' = [pc EXCEPT ![r] = "print_totals"]
    /\ UNCHANGED <<argv, nprocs, ext, args, model, vals, driver, stdout, stderr, files, exitStatus>>

\* lines 182-183
PrintTotals(r) ==
    /\ Running(r) /\ pc[r] = "print_totals"
    /\ stdout' = [stdout EXCEPT ![r] = IF IsPrintingRank(r) THEN Append(@, "totals") ELSE @]
    /\ pc' = [pc EXCEPT ![r] = "end"]
    /\ UNCHANGED <<argv, nprocs, ext, args, model, vals, driver, calls, stderr, files, exitStatus>>

\* lines 184-186
CheckTotalsRunModel(r) ==
    /\ Running(r) /\ pc[r] = "dispatch"
    /\ TaskBranch(args[r][1].task) = "check_totals"
    /\ ext' \in SolveReturns(ext)
    /\ calls' = [calls EXCEPT ![r] = Append(@, Call("run_model", {}))]
    /\ vals' = [vals EXCEPT ![r] = run_model(model[r], @, ext')]
    /\ pc' = [pc EXCEPT ![r] = "check_totals"]
    /\ UNCHANGED <<argv, nprocs, args, model, driver, stdout, stderr, files, exitStatus>>

\* line 187: the call and its keyword arguments.  The routine is the
\* framework's; the script passes it nothing but these arguments and makes no
\* assignment of its own at this line
CheckTotalsCall(r) ==
    /\ Running(r) /\ pc[r] = "check_totals"
    /\ calls' = [calls EXCEPT ![r] = Append(@, Call("check_totals", CheckTotalsKw))]
    /\ pc' = [pc EXCEPT ![r] = "end"]
    /\ UNCHANGED <<argv, nprocs, ext, args, model, vals, driver, stdout, stderr, files, exitStatus>>

\* lines 188-190
TaskError(r) ==
    /\ Running(r) /\ pc[r] = "dispatch"
    /\ TaskBranch(args[r][1].task) = "else"
    /\ stdout' = [stdout EXCEPT ![r] = Append(@, "task arg not found!")]
    /\ exitStatus' = [exitStatus EXCEPT ![r] = <<1>>]
    /\ pc' = [pc EXCEPT ![r] = "exited"]
    /\ UNCHANGED <<argv, nprocs, ext, args, model, vals, driver, calls, stderr, files>>

\* falling off the end of the script: the interpreter exits with status 0
EndOfScript(r) ==
    /\ Running(r) /\ pc[r] = "end"
    /\ exitStatus' = [exitStatus EXCEPT ![r] = <<0>>]
    /\ pc' = [pc EXCEPT ![r] = "exited"]
    /\ UNCHANGED <<argv, nprocs, ext, args, model, vals, driver, calls, stdout, stderr, files>>

RankStep(r) ==
    \/ ParseArgs(r)
    \/ ParseHelp(r)
    \/ ParseReject(r)
    \/ ProblemSetup(r)
    \/ ConfigureDriver(r)
    \/ OptimizerError(r)
    \/ TaskRunDriver(r)
    \/ TaskRunModel(r)
    \/ ComputeTotalsRunModel(r)
    \/ ComputeTotalsCall(r)
    \/ PrintTotals(r)
    \/ CheckTotalsRunModel(r)
    \/ CheckTotalsCall(r)
    \/ TaskError(r)
    \/ EndOfScript(r)

Next == \E r \in 0 .. (MaxRanks - 1) : RankStep(r)

Spec == Init /\ [][Next]_vars

\* the process group keeps executing while some rank has a statement left
FairSpec == Spec /\ WF_vars(Next)


\* ===========================================================================
\* Properties
\* ===========================================================================
ValidOptimizers == {"SNOPT", "IPOPT", "SLSQP"}
ValidTasks == {"run_driver", "run_model", "compute_totals", "check_totals"}

\* the command line spells the flags in full, each followed by one word
PlainForm ==
    /\ Len(argv) \in {0, 2, 4}
    /\ \A i \in 1 .. Len(argv) : (i % 2 = 1) => argv[i] \in {"-optimizer", "-task"}
    /\ Len(argv) = 4 => argv[1] # argv[3]

\* on such a command line: the word that follows a flag, or the flag's default
TokenOf(flag, default) ==
    IF \E i \in 1 .. (Len(argv) - 1) : i % 2 = 1 /\ argv[i] = flag
    THEN argv[(CHOOSE i \in 1 .. (Len(argv) - 1) : i % 2 = 1 /\ argv[i] = flag) + 1]
    ELSE default

OptimizerToken == TokenOf("-optimizer", "IPOPT")
TaskToken == TokenOf("-task", "run_driver")

\* no word of the command line can be a spelling of the flag
FlagAbsent(initial) == \A i \in 1 .. Len(argv) : ~StartsWith(argv[i], initial)

\* the rank got a namespace from the parser
HasArgs(r) == args[r] # <<>>
OptimizerOf(r) == args[r][1].optimizer
TaskOf(r) == args[r][1].task

Exited(r) == exitStatus[r] # <<>>
AllExited == \A r \in Ranks : Exited(r)

IsPrefix(a, b) == Len(a) <= Len(b) /\ SubSeq(b, 1, Len(a)) = a
Ops(r) == [i \in 1 .. Len(calls[r]) |-> calls[r][i].op]
CountOp(r, op) == Cardinality({i \in 1 .. Len(calls[r]) : calls[r][i].op = op})

\* the framework operations of each task mode, in order
ModeOps(task) ==
    IF task = "run_driver" THEN <<"run_driver">>
    ELSE IF task = "run_model" THEN <<"run_model">>
    ELSE IF task = "compute_totals" THEN <<"run_model", "compute_totals">>
    ELSE IF task = "check_totals" THEN <<"run_model", "check_totals">>
    ELSE <<>>

ProblemIsSetUp(r) ==
    /\ model[r].connections # {}
    /\ model[r].design_vars # {}
    /\ model[r].objectives # {}
    /\ "mphys.html" \in files[r]

DriverIsConfigured(r) ==
    /\ driver[r].kind = "pyOptSparseDriver"
    /\ driver[r].opt_settings # {}
    /\ driver[r].debug_print = <<"nl_cons", "objs", "desvars">>
    /\ driver[r].print_opt_prob = TRUE
    /\ driver[r].hist_file = "OptView.hst"

\* C1 as stated: on a command line that gives -optimizer a word outside
\* {SNOPT, IPOPT, SLSQP}, no rank makes a framework run call and a rank that
\* has exited has status 1 and has printed the optimizer error message.
C1_AsStated ==
    (PlainForm /\ OptimizerToken \notin ValidOptimizers) =>
        \A r \in Ranks :
            /\ calls[r] = <<>>
            /\ Exited(r) => /\ exitStatus[r] = <<1>>
                            /\ stdout[r] = <<"optimizer arg not valid!">>

\* C1 amended: when the argument parser returns a namespace whose optimizer
\* value is outside {SNOPT, IPOPT, SLSQP}, whatever the task value, the rank
\* never makes a framework run call or gets past the optimizer selection,
\* prints nothing before it exits, and once exited has status 1 and has
\* printed exactly the optimizer error message; and the run terminates: every
\* rank of the group eventually exits.
C1_State ==
    \A r \in Ranks :
        (HasArgs(r) /\ OptimizerOf(r) \notin ValidOptimizers) =>
            /\ calls[r] = <<>>
            /\ pc[r] \in {"setup", "driver", "exited"}
            /\ stderr[r] = <<>>
            /\ ~Exited(r) => stdout[r] = <<>>
            /\ Exited(r) => /\ exitStatus[r] = <<1>>
                            /\ stdout[r] = <<"optimizer arg not valid!">>

C1_OptimizerError == [](C1_State) /\ <>(AllExited)

C1_Witness ==
    /\ argv = <<"-optimizer", "snopt", "-task", "compute_totals">>
    /\ AllExited
    /\ exitStatus[0] = <<1>>
    /\ stdout[0] = <<"optimizer arg not valid!">>

\* C2 as stated: on a command line with a valid optimizer word and a -task
\* word outside the four modes, no rank makes a framework run call and a rank
\* that has exited has status 1, has printed the task error message and had
\* its problem set up and its driver configured.
C2_AsStated ==
    (PlainForm /\ OptimizerToken \in ValidOptimizers /\ TaskToken \notin ValidTasks) =>
        \A r \in Ranks :
            /\ calls[r] = <<>>
            /\ Exited(r) => /\ exitStatus[r] = <<1>>
                            /\ stdout[r] = <<"task arg not found!">>
                            /\ ProblemIsSetUp(r)
                            /\ DriverIsConfigured(r)

\* C2 amended: when the argument parser returns a namespace with a valid
\* optimizer value and a task value outside the four modes, the rank never
\* makes a framework run call or gets past the task dispatch, and once exited
\* it has status 1, has printed exactly the task error message, and had its
\* problem set up and its driver configured; and the run terminates: no rank
\* is left running for ever.
C2_State ==
    \A r \in Ranks :
        (HasArgs(r) /\ OptimizerOf(r) \in ValidOptimizers /\ TaskOf(r) \notin ValidTasks) =>
            /\ calls[r] = <<>>
            /\ pc[r] \notin {"compute_totals", "print_totals", "check_totals", "end"}
            /\ stderr[r] = <<>>
            /\ Exited(r) => /\ exitStatus[r] = <<1>>
                            /\ stdout[r] = <<"task arg not found!">>
                            /\ ProblemIsSetUp(r)
                            /\ DriverIsConfigured(r)
                            /\ driver[r].optimizer = OptimizerOf(r)

C2_TaskError == [](C2_State) /\ <>(\A r \in Ranks : pc[r] = "exited")

C2_Witness ==
    /\ argv = <<"-optimizer", "SLSQP", "-task", "Run_Model">>
    /\ AllExited
    /\ exitStatus[0] = <<1>>
    /\ DriverIsConfigured(0)

\* C3 as stated: on a command line that gives the two flags a word each (or
\* leaves one out), an exited rank has status 1 exactly when the optimizer
\* word or the task word is invalid, and status 0 otherwise.
C3_AsStated ==
    PlainForm =>
        \A r \in Ranks :
            Exited(r) =>
                IF OptimizerToken \notin ValidOptimizers \/ TaskToken \notin ValidTasks
                THEN exitStatus[r] = <<1>>
                ELSE exitStatus[r] = <<0>>

\* C3 amended: every run terminates; a rank to which the argument parser
\* returned a namespace exits with status 1 exactly when the optimizer value
\* or the task value is invalid, and with status 0 otherwise; a rank the
\* parser ended has set up nothing and made no framework run call, and it has
\* either status 0, with the usage on its standard output and nothing on its
\* standard error, the command line carrying a help flag, or status 2, with a
\* diagnostic on its standard error and nothing on its standard output; the
\* first is the case exactly when the parser finds a help flag and the second
\* exactly when it rejects the command line, and a command line that begins
\* with -h or --help always ends with status 0.
HelpFlagGiven ==
    \E i \in 1 .. Len(argv) : StartsWith(argv[i], "-h") \/ StartsWith(argv[i], "--h")
C3_State ==
    \A r \in Ranks :
        Exited(r) =>
            /\ IF HasArgs(r)
               THEN /\ exitStatus[r] \in {<<0>>, <<1>>}
                    /\ exitStatus[r] = <<1>> <=>
                           (OptimizerOf(r) \notin ValidOptimizers \/ TaskOf(r) \notin ValidTasks)
                    /\ stderr[r] = <<>>
               ELSE /\ calls[r] = <<>>
                    /\ ~ProblemIsSetUp(r)
                    /\ \/ /\ exitStatus[r] = <<0>>
                          /\ stdout[r] = <<"usage">>
                          /\ stderr[r] = <<>>
                          /\ HelpFlagGiven
                       \/ /\ exitStatus[r] = <<2>>
                          /\ stdout[r] = <<>>
                          /\ Len(stderr[r]) = 1
                    /\ exitStatus[r] = <<0>> <=> ParseResult(argv).kind = "help"
                    /\ exitStatus[r] = <<2>> <=> ParseResult(argv).kind = "error"
            /\ (Len(argv) >= 1 /\ argv[1] \in {"-h", "--help"}) => exitStatus[r] = <<0>>
C3_ExitStatus == [](C3_State) /\ <>(AllExited)

C3_Witness ==
    /\ AllExited
    /\ exitStatus[0] = <<0>>
    /\ Len(argv) = 4
    /\ calls[0] # <<>>

\* C4: a rank whose optimizer is valid and whose task is run_model never makes
\* any call but one run_model, and when it has exited it has made exactly one
\* forward solve and no derivative computation, derivative check or
\* optimization loop.
C4_RunModel ==
    \A r \in Ranks :
        (HasArgs(r) /\ OptimizerOf(r) \in ValidOptimizers /\ TaskOf(r) = "run_model") =>
            /\ CountOp(r, "run_model") <= 1
            /\ CountOp(r, "compute_totals") = 0
            /\ CountOp(r, "check_totals") = 0
            /\ CountOp(r, "run_driver") = 0
            /\ Exited(r) => /\ CountOp(r, "run_model") = 1
                            /\ Len(calls[r]) = 1

C4_Witness ==
    /\ argv = <<"-optimizer", "SNOPT", "-task", "run_model">>
    /\ AllExited
    /\ calls[0] = <<Call("run_model", {})>>

\* C5: the calls of a rank whose optimizer is valid and whose task is
\* compute_totals are always a prefix of (forward solve, total-derivative
\* computation), so the derivative computation starts only after the forward
\* solve has returned; an exited rank has made exactly these two calls.
C5_ComputeTotals ==
    \A r \in Ranks :
        (HasArgs(r) /\ OptimizerOf(r) \in ValidOptimizers /\ TaskOf(r) = "compute_totals") =>
            /\ IsPrefix(Ops(r), <<"run_model", "compute_totals">>)
            /\ CountOp(r, "run_driver") = 0
            /\ CountOp(r, "check_totals") = 0
            /\ Exited(r) => Ops(r) = <<"run_model", "compute_totals">>

C5_Witness ==
    /\ argv = <<"-task", "compute_totals">>
    /\ AllExited
    /\ Ops(0) = <<"run_model", "compute_totals">>

\* C6: when a group of N >= 1 ranks runs task compute_totals, under every
\* interleaving only rank 0 ever prints the totals and prints them at most
\* once; once all ranks have exited the totals have been printed exactly once
\* in the whole group, and every rank has done the forward solve and the
\* total-derivative computation.
TotalsPrinted(r) == Cardinality({i \in 1 .. Len(stdout[r]) : stdout[r][i] = "totals"})
RunsComputeTotals ==
    \E r \in Ranks :
        HasArgs(r) /\ OptimizerOf(r) \in ValidOptimizers /\ TaskOf(r) = "compute_totals"
C6_PrintOnce ==
    /\ \A r \in Ranks : r # 0 => TotalsPrinted(r) = 0
    /\ TotalsPrinted(0) <= 1
    /\ (RunsComputeTotals /\ AllExited) =>
          /\ TotalsPrinted(0) = 1
          /\ Cardinality({r \in Ranks : TotalsPrinted(r) > 0}) = 1
          /\ \A r \in Ranks : Ops(r) = <<"run_model", "compute_totals">>

C6_Witness ==
    /\ nprocs = MaxRanks
    /\ RunsComputeTotals
    /\ AllExited
    /\ stdout[0] = <<"totals">>
    /\ stdout[nprocs - 1] = <<>>
    /\ Ops(nprocs - 1) = <<"run_model", "compute_totals">>

\* C8: a rank that has made any framework run call has the settings table of
\* exactly the back end named by its -optimizer value, and its calls are a
\* prefix of the operations of the one mode named by its -task value, all of
\* them once it has exited; the value is the word given on the command line,
\* IPOPT when no -optimizer flag is given and run_driver when no -task flag is.
TableOf(token) ==
    IF token = "SNOPT" THEN SNOPTSettings
    ELSE IF token = "IPOPT" THEN IPOPTSettings
    ELSE IF token = "SLSQP" THEN SLSQPSettings
    ELSE {}
C8_OneBackendOneTask ==
    \A r \in Ranks :
        calls[r] # <<>> =>
            /\ HasArgs(r)
            /\ OptimizerOf(r) \in ValidOptimizers
            /\ TaskOf(r) \in ValidTasks
            /\ PlainForm => (OptimizerOf(r) = OptimizerToken /\ TaskOf(r) = TaskToken)
            /\ FlagAbsent("-o") => OptimizerOf(r) = "IPOPT"
            /\ FlagAbsent("-t") => TaskOf(r) = "run_driver"
            /\ driver[r].optimizer = OptimizerOf(r)
            /\ driver[r].opt_settings = TableOf(OptimizerOf(r))
            /\ \A o \in ValidOptimizers \ {OptimizerOf(r)} :
                  driver[r].opt_settings # TableOf(o)
            /\ IsPrefix(Ops(r), ModeOps(TaskOf(r)))
            /\ Exited(r) => Ops(r) = ModeOps(TaskOf(r))

C8_Witness ==
    /\ argv = <<>>
    /\ AllExited
    /\ Ops(0) = <<"run_driver">>
    /\ driver[0].opt_settings = IPOPTSettings

\* C9: once the problem is set up, each of the inputs scenario1.beta, obj.error
\* and obj.regulation is the target of exactly one connection; once the model
\* has been evaluated, obj.error holds the scenario's UFieldVar, obj.regulation
\* holds its betaVar, and obj.val is their sum, for every pair of values the
\* solver returns.
C9_ObjectiveWiring ==
    \A r \in Ranks :
        /\ model[r].subsystems # <<>> =>
              \A i \in {"scenario1.beta", "obj.error", "obj.regulation"} :
                  Cardinality({c \in model[r].connections : c.tgt = i}) = 1
        /\ calls[r] # <<>> =>
              /\ Has(vals[r], "obj.val")
              /\ Get(vals[r], "obj.error") = ext.UFieldVar
              /\ Get(vals[r], "obj.regulation") = ext.betaVar
              /\ Get(vals[r], "obj.val") = ext.UFieldVar + ext.betaVar
              /\ Get(vals[r], "scenario1.beta") = Get(vals[r], "beta")

C9_Witness ==
    /\ ext.UFieldVar # ext.betaVar
    /\ calls[0] # <<>>
    /\ Has(vals[0], "obj.val")
    /\ Get(vals[0], "obj.val") = 1

\* C10: the ranks of one group never diverge: the call sequences of any two
\* ranks are prefixes of one another, two ranks that hold a namespace hold the
\* same one, a rank that exits with status 1 means no rank ever makes a
\* framework run call and every exited rank has the same status and the same
\* error message, and two exited ranks have made the same calls with the same
\* arguments and have the same status.
C10_RanksAgree ==
    \A r \in Ranks : \A q \in Ranks :
        /\ IsPrefix(calls[r], calls[q]) \/ IsPrefix(calls[q], calls[r])
        /\ (HasArgs(r) /\ HasArgs(q)) => args[r] = args[q]
        /\ (Exited(r) /\ ~HasArgs(r)) => ~HasArgs(q)
        /\ exitStatus[r] = <<1>> =>
              /\ calls[q] = <<>>
              /\ Exited(q) => (exitStatus[q] = <<1>> /\ stdout[q] = stdout[r])
        /\ (Exited(r) /\ Exited(q)) =>
              /\ calls[r] = calls[q]
              /\ exitStatus[r] = exitStatus[q]

C10_Witness ==
    /\ nprocs > 1
    /\ AllExited
    /\ Len(calls[0]) = 2
    /\ calls[nprocs - 1] = calls[0]
    /\ stdout[0] # stdout[nprocs - 1]

====
